---- MODULE Spec2Model ----
(***************************************************************************)
(* Model of setups/example2/ns-3/emulator.cc: main() builds a chain of     *)
(* noOfRouters routers between two OS tap endpoints, addresses the router  *)
(* devices, bridges the two outer devices, populates routing and runs the  *)
(* real-time engine.  Each statement group of main() is one action; pc is  *)
(* the position of the single thread of control.                           *)
(***************************************************************************)
EXTENDS Integers, Sequences, FiniteSets

VARIABLES pc, router, noOfRouters, runSeconds, delayNanoSeconds,
          errors, exitCode, globals, nodes, csmaAttr, stacked, links,
          firstDevices, linkDevices, lastDevices, tapNodes, tapDevices,
          internetStackNodes, addresses, bases, assigned, bridgeAttr,
          bridges, populated, stopAt, runs, destroyed

vars == <<pc, router, noOfRouters, runSeconds, delayNanoSeconds,
          errors, exitCode, globals, nodes, csmaAttr, stacked, links,
          firstDevices, linkDevices, lastDevices, tapNodes, tapDevices,
          internetStackNodes, addresses, bases, assigned, bridgeAttr,
          bridges, populated, stopAt, runs, destroyed>>

----------------------------------------------------------------------------
(* Program constants and input bounds *)

DefaultRunSeconds == 100
DefaultDelayNanoSeconds == 50000
DefaultRouters == 1
MaxRouters == 63
UInt16Max == 65535

\* largest --routers value tried besides UInt16Max; covers every valid count
MaxRoutersInput == 65
\* a second --runfor and --delay value besides the defaults
AltRunSeconds == 7
AltDelayNanoSeconds == 0

RouterInputs == (0..MaxRoutersInput) \cup {UInt16Max}
RunforInputs == {DefaultRunSeconds, AltRunSeconds}
DelayInputs == {DefaultDelayNanoSeconds, AltDelayNanoSeconds}

mode == "UseBridge"
tapName0 == "ns3_em0"
tapName1 == "ns3_em1"

\* NetDeviceContainer::Get / NodeContainer::Get, zero-based
Get(c, i) == c[i + 1]

----------------------------------------------------------------------------
(* Strings are sequences of characters; conversions are computed *)

Digits == <<"0", "1", "2", "3", "4", "5", "6", "7", "8", "9">>

DigitChar(d) == Digits[d + 1]

DigitVal(c) == CHOOSE d \in 0..9 : Digits[d + 1] = c

RECURSIVE to_string(_)
\* std::to_string on an unsigned value: decimal digits, no padding
to_string(n) ==
    IF n < 10 THEN <<DigitChar(n)>>
    ELSE to_string(n \div 10) \o <<DigitChar(n % 10)>>

RECURSIVE ParseFrom(_, _, _, _)
ParseFrom(s, i, byte, acc) ==
    IF i > Len(s) THEN Append(acc, byte)
    ELSE IF s[i] = "." THEN ParseFrom(s, i + 1, 0, Append(acc, byte))
    ELSE ParseFrom(s, i + 1, (byte * 10 + DigitVal(s[i])) % 256, acc)

\* dotted-decimal text to the four octets of an Ipv4Address / Ipv4Mask
AsciiToIpv4(s) == ParseFrom(s, 1, 0, <<>>)

FirstBase == <<"1", "7", "2", ".", "2", "0", ".", "0", ".", "0">>

BasePrefix == <<"1", "7", "2", ".", "2", "0", ".">>

BaseSuffix == <<".", "0">>

MaskText == <<"2", "5", "5", ".", "2", "5", "5", ".", "2", "5", "5", ".", "0">>

InnerBase_next(r) == BasePrefix \o to_string(r + 1) \o BaseSuffix

\* line 68: "172.20." + std::to_string(router) + ".0"
InnerBase(r) == BasePrefix \o to_string(r) \o BaseSuffix

LastBase_prev(n) == BasePrefix \o to_string(n - 1) \o BaseSuffix

\* line 78: "172.20." + std::to_string(noOfRouters) + ".0"
LastBase(n) == BasePrefix \o to_string(n) \o BaseSuffix

RECURSIVE BitAnd(_, _)
BitAnd(x, m) ==
    IF m = 255 THEN x
    ELSE IF x = 0 \/ m = 0 THEN 0
    ELSE (x % 2) * (m % 2) + 2 * BitAnd(x \div 2, m \div 2)

Masked(net, m) == [i \in 1..4 |-> BitAnd(net[i], m[i])]

\* two blocks share an address iff they agree under both masks
Overlap(n1, m1, n2, m2) == Masked(Masked(n1, m1), m2) = Masked(Masked(n2, m2), m1)

----------------------------------------------------------------------------
(* Conditions and indices of main() *)

InvalidRouterCount_off(n) == n = 0 \/ n > MaxRouters + 1

\* line 31
InvalidRouterCount(n) == n = 0 \/ n > MaxRouters

StackLoopCond_short(r, n) == r < n

\* line 57
StackLoopCond(r, n) == r < n + 1

InnerLoopCond_long(r, n) == r <= n

\* line 64
InnerLoopCond(r, n) == r < n

RoutingGuard_multi(n) == n > 1

\* line 90
RoutingGuard(n) == n # 0

\* line 54: firstDevices.Get(0)
FirstTapDev == 0

\* the index of line 54 repeated for the last link
LastTapDev_router == FirstTapDev

\* line 75: lastDevices.Get(1)
LastTapDev == 1

\* the tap-side index of the first link
FirstAssignDev_os == FirstTapDev

\* line 62: firstDevices.Get(1)
FirstAssignDev == 1

\* the tap-side index of the last link
LastAssignDev_os == LastTapDev

\* line 79: lastDevices.Get(0)
LastAssignDev == 0

\* CsmaHelper::Install on a two-node container: the devices of link l, in
\* the order of the container's nodes
Install(l) == <<<<l, 0>>, <<l, 1>>>>

\* the endpoint a device <<link, index>> is installed on
Owner(d) == links[d[1]][d[2] + 1]

\* Ipv4AddressHelper::SetBase: new network and mask, host counter back to 1
SetBase(text) == [network |-> AsciiToIpv4(text), mask |-> AsciiToIpv4(MaskText), host |-> 1]

\* Ipv4AddressHelper::Assign over a device container, in container order
Assign(helper, devs, alloc) ==
    [i \in 1..Len(devs) |->
        [link |-> devs[i][1], dev |-> devs[i][2], net |-> helper.network,
         mask |-> helper.mask, host |-> helper.host + i - 1, alloc |-> alloc]]

----------------------------------------------------------------------------

Init ==
    /\ pc = "parse"
    /\ router = 0
    /\ noOfRouters = DefaultRouters
    /\ runSeconds = DefaultRunSeconds
    /\ delayNanoSeconds = DefaultDelayNanoSeconds
    /\ errors = <<>>
    /\ exitCode = <<>>
    /\ globals = {}
    /\ nodes = 0
    /\ csmaAttr = <<>>
    /\ stacked = {}
    /\ links = <<>>
    /\ firstDevices = <<>>
    /\ linkDevices = <<>>
    /\ lastDevices = <<>>
    /\ tapNodes = <<>>
    /\ tapDevices = <<>>
    /\ internetStackNodes = <<>>
    /\ addresses = [network |-> <<>>, mask |-> <<>>, host |-> 0]
    /\ bases = <<>>
    /\ assigned = <<>>
    /\ bridgeAttr = <<>>
    /\ bridges = <<>>
    /\ populated = 0
    /\ stopAt = {}
    /\ runs = 0
    /\ destroyed = 0

topology == <<globals, nodes, csmaAttr, stacked, links, firstDevices,
              linkDevices, lastDevices, tapNodes, tapDevices,
              internetStackNodes, addresses, bases, assigned, bridgeAttr,
              bridges, populated>>

inputs == <<noOfRouters, runSeconds, delayNanoSeconds>>

engine == <<stopAt, runs, destroyed>>

\* lines 25-29
Parse ==
    /\ pc = "parse"
    /\ \E r \in RouterInputs, s \in RunforInputs, d \in DelayInputs :
          /\ noOfRouters' = r
          /\ runSeconds' = s
          /\ delayNanoSeconds' = d
    /\ pc' = "validate"
    /\ UNCHANGED <<router, errors, exitCode, topology, engine>>

\* lines 31-34, the error branch
ValidateFail ==
    /\ pc = "validate"
    /\ InvalidRouterCount(noOfRouters)
    /\ errors' = Append(errors, "Invalid router count")
    /\ exitCode' = Append(exitCode, 1)
    /\ pc' = "done"
    /\ UNCHANGED <<router, inputs, topology, engine>>

\* line 31, fall through
ValidateOk ==
    /\ pc = "validate"
    /\ ~InvalidRouterCount(noOfRouters)
    /\ pc' = "bind"
    /\ UNCHANGED <<router, inputs, errors, exitCode, topology, engine>>

\* lines 36-38
BindGlobals ==
    /\ pc = "bind"
    /\ globals' = {<<"SimulatorImplementationType", "ns3::RealtimeSimulatorImpl">>,
                   <<"ChecksumEnabled", "true">>,
                   <<"SynchronizationMode", "BestEffort">>}
    /\ pc' = "create_nodes"
    /\ UNCHANGED <<router, inputs, errors, exitCode, nodes, csmaAttr, stacked,
                   links, firstDevices, linkDevices, lastDevices, tapNodes,
                   tapDevices, internetStackNodes, addresses, bases, assigned,
                   bridgeAttr, bridges, populated, engine>>

\* lines 40-41
CreateNodes ==
    /\ pc = "create_nodes"
    /\ nodes' = 2 + noOfRouters
    /\ pc' = "csma"
    /\ UNCHANGED <<router, inputs, errors, exitCode, globals, csmaAttr, stacked,
                   links, firstDevices, linkDevices, lastDevices, tapNodes,
                   tapDevices, internetStackNodes, addresses, bases, assigned,
                   bridgeAttr, bridges, populated, engine>>

\* lines 43-45
CsmaConfig ==
    /\ pc = "csma"
    /\ csmaAttr' = <<"1000Mbps", delayNanoSeconds>>
    /\ pc' = "first_link"
    /\ UNCHANGED <<router, inputs, errors, exitCode, globals, nodes, stacked,
                   links, firstDevices, linkDevices, lastDevices, tapNodes,
                   tapDevices, internetStackNodes, addresses, bases, assigned,
                   bridgeAttr, bridges, populated, engine>>

\* lines 47-54 and the loop initialisation of line 57
FirstLink ==
    /\ pc = "first_link"
    /\ tapNodes' = Append(tapNodes, 0)
    /\ links' = Append(links, <<0, 1>>)
    /\ firstDevices' = Install(Len(links'))
    /\ tapDevices' = Append(tapDevices, Get(firstDevices', FirstTapDev))
    /\ router' = 1
    /\ pc' = "stack_loop"
    /\ UNCHANGED <<inputs, errors, exitCode, globals, nodes, csmaAttr, stacked,
                   linkDevices, lastDevices, internetStackNodes, addresses,
                   bases, assigned, bridgeAttr, bridges, populated, engine>>

\* lines 57-59, one iteration
StackInstall ==
    /\ pc = "stack_loop"
    /\ StackLoopCond(router, noOfRouters)
    /\ stacked' = stacked \cup {router}
    /\ router' = (router + 1) % (UInt16Max + 1)
    /\ UNCHANGED <<pc, inputs, errors, exitCode, globals, nodes, csmaAttr,
                   links, firstDevices, linkDevices, lastDevices, tapNodes,
                   tapDevices, internetStackNodes, addresses, bases, assigned,
                   bridgeAttr, bridges, populated, engine>>

\* line 57, loop exit
StackLoopExit ==
    /\ pc = "stack_loop"
    /\ ~StackLoopCond(router, noOfRouters)
    /\ pc' = "first_addr"
    /\ UNCHANGED <<router, inputs, errors, exitCode, topology, engine>>

\* lines 60-62 and the loop initialisation of line 64
FirstAddr ==
    /\ pc = "first_addr"
    /\ bases' = Append(bases, AsciiToIpv4(FirstBase))
    /\ LET h == SetBase(FirstBase)
           new == Assign(h, <<Get(firstDevices, FirstAssignDev)>>, Len(bases'))
       IN /\ assigned' = assigned \o new
          /\ addresses' = [h EXCEPT !.host = h.host + Len(new)]
    /\ router' = 1
    /\ pc' = "inner_loop"
    /\ UNCHANGED <<inputs, errors, exitCode, globals, nodes, csmaAttr, stacked,
                   links, firstDevices, linkDevices, lastDevices, tapNodes,
                   tapDevices, internetStackNodes, bridgeAttr, bridges,
                   populated, engine>>

\* lines 64-66: loop test passes, the link of this iteration is installed
InnerLink ==
    /\ pc = "inner_loop"
    /\ InnerLoopCond(router, noOfRouters)
    /\ links' = Append(links, <<router, router + 1>>)
    /\ linkDevices' = Install(Len(links'))
    /\ pc' = "inner_addr"
    /\ UNCHANGED <<router, inputs, errors, exitCode, globals, nodes, csmaAttr,
                   stacked, firstDevices, lastDevices, tapNodes, tapDevices,
                   internetStackNodes, addresses, bases, assigned, bridgeAttr,
                   bridges, populated, engine>>

\* lines 68-70: both devices of the link are addressed, router++
InnerAddr ==
    /\ pc = "inner_addr"
    /\ bases' = Append(bases, AsciiToIpv4(InnerBase(router)))
    /\ LET h == SetBase(InnerBase(router))
           new == Assign(h, linkDevices, Len(bases'))
       IN /\ assigned' = assigned \o new
          /\ addresses' = [h EXCEPT !.host = h.host + Len(new)]
    /\ router' = (router + 1) % (UInt16Max + 1)
    /\ pc' = "inner_loop"
    /\ UNCHANGED <<inputs, errors, exitCode, globals, nodes, csmaAttr, stacked,
                   links, firstDevices, linkDevices, lastDevices, tapNodes,
                   tapDevices, internetStackNodes, bridgeAttr, bridges,
                   populated, engine>>

\* line 64, loop exit
InnerLoopExit ==
    /\ pc = "inner_loop"
    /\ ~InnerLoopCond(router, noOfRouters)
    /\ pc' = "last_link"
    /\ UNCHANGED <<router, inputs, errors, exitCode, topology, engine>>

\* lines 72-76
LastLink ==
    /\ pc = "last_link"
    /\ tapNodes' = Append(tapNodes, noOfRouters + 1)
    /\ links' = Append(links, <<noOfRouters, noOfRouters + 1>>)
    /\ lastDevices' = Install(Len(links'))
    /\ tapDevices' = Append(tapDevices, Get(lastDevices', LastTapDev))
    /\ internetStackNodes' = Append(internetStackNodes, noOfRouters)
    /\ pc' = "last_addr"
    /\ UNCHANGED <<router, inputs, errors, exitCode, globals, nodes, csmaAttr,
                   stacked, firstDevices, linkDevices, addresses, bases,
                   assigned, bridgeAttr, bridges, populated, engine>>

\* lines 78-79
LastAddr ==
    /\ pc = "last_addr"
    /\ bases' = Append(bases, AsciiToIpv4(LastBase(noOfRouters)))
    /\ LET h == SetBase(LastBase(noOfRouters))
           new == Assign(h, <<Get(lastDevices, LastAssignDev)>>, Len(bases'))
       IN /\ assigned' = assigned \o new
          /\ addresses' = [h EXCEPT !.host = h.host + Len(new)]
    /\ pc' = "bridge0"
    /\ UNCHANGED <<router, inputs, errors, exitCode, globals, nodes, csmaAttr,
                   stacked, links, firstDevices, linkDevices, lastDevices,
                   tapNodes, tapDevices, internetStackNodes, bridgeAttr,
                   bridges, populated, engine>>

\* lines 81-84
Bridge0 ==
    /\ pc = "bridge0"
    /\ bridgeAttr' = <<mode, tapName0>>
    /\ bridges' = Append(bridges, [node |-> Get(tapNodes, 0), dev |-> Get(tapDevices, 0),
                                   mode |-> bridgeAttr'[1], name |-> bridgeAttr'[2]])
    /\ pc' = "bridge1"
    /\ UNCHANGED <<router, inputs, errors, exitCode, globals, nodes, csmaAttr,
                   stacked, links, firstDevices, linkDevices, lastDevices,
                   tapNodes, tapDevices, internetStackNodes, addresses, bases,
                   assigned, populated, engine>>

\* lines 86-87
Bridge1 ==
    /\ pc = "bridge1"
    /\ bridgeAttr' = <<bridgeAttr[1], tapName1>>
    /\ bridges' = Append(bridges, [node |-> Get(tapNodes, 1), dev |-> Get(tapDevices, 1),
                                   mode |-> bridgeAttr'[1], name |-> bridgeAttr'[2]])
    /\ pc' = "routing"
    /\ UNCHANGED <<router, inputs, errors, exitCode, globals, nodes, csmaAttr,
                   stacked, links, firstDevices, linkDevices, lastDevices,
                   tapNodes, tapDevices, internetStackNodes, addresses, bases,
                   assigned, populated, engine>>

\* lines 90-92
PopulateRouting ==
    /\ pc = "routing"
    /\ populated' = IF RoutingGuard(noOfRouters) THEN populated + 1 ELSE populated
    /\ pc' = "stop"
    /\ UNCHANGED <<router, inputs, errors, exitCode, globals, nodes, csmaAttr,
                   stacked, links, firstDevices, linkDevices, lastDevices,
                   tapNodes, tapDevices, internetStackNodes, addresses, bases,
                   assigned, bridgeAttr, bridges, engine>>

SimulatorStop_missing ==
    /\ pc = "stop"
    /\ pc' = "run"
    /\ UNCHANGED <<router, inputs, errors, exitCode, topology, engine>>

\* line 94
SimulatorStop ==
    /\ pc = "stop"
    /\ stopAt' = stopAt \cup {runSeconds}
    /\ pc' = "run"
    /\ UNCHANGED <<router, inputs, errors, exitCode, topology, runs, destroyed>>

\* line 95: blocks until the installed stop time, then returns
SimulatorRun ==
    /\ pc = "run"
    /\ runs' = runs + 1
    /\ pc' = "destroy"
    /\ UNCHANGED <<router, inputs, errors, exitCode, topology, stopAt, destroyed>>

\* line 96
SimulatorDestroy ==
    /\ pc = "destroy"
    /\ destroyed' = destroyed + 1
    /\ pc' = "return"
    /\ UNCHANGED <<router, inputs, errors, exitCode, topology, stopAt, runs>>

\* line 98
ReturnSuccess ==
    /\ pc = "return"
    /\ exitCode' = Append(exitCode, 0)
    /\ pc' = "done"
    /\ UNCHANGED <<router, inputs, errors, topology, engine>>

Next ==
    \/ Parse
    \/ ValidateFail
    \/ ValidateOk
    \/ BindGlobals
    \/ CreateNodes
    \/ CsmaConfig
    \/ FirstLink
    \/ StackInstall
    \/ StackLoopExit
    \/ FirstAddr
    \/ InnerLink
    \/ InnerAddr
    \/ InnerLoopExit
    \/ LastLink
    \/ LastAddr
    \/ Bridge0
    \/ Bridge1
    \/ PopulateRouting
    \/ SimulatorStop
    \/ SimulatorRun
    \/ SimulatorDestroy
    \/ ReturnSuccess

Spec == Init /\ [][Next]_vars

----------------------------------------------------------------------------
(* Vocabulary of the properties *)

N == noOfRouters

Parsed == pc # "parse"

ValidCount == N \in 1..63

Succeeded == pc = "done" /\ exitCode = <<0>>

\* the chain and its addressing are finished (line 79 has executed)
BuildComplete ==
    pc \in {"bridge0", "bridge1", "routing", "stop", "run", "destroy", "return"} \/ Succeeded

\* both bridges are installed (line 87 has executed)
BridgesComplete == pc \in {"routing", "stop", "run", "destroy", "return"} \/ Succeeded

NothingAllocated ==
    /\ globals = {} /\ nodes = 0 /\ csmaAttr = <<>> /\ stacked = {}
    /\ links = <<>> /\ tapNodes = <<>> /\ tapDevices = <<>>
    /\ bases = <<>> /\ assigned = <<>> /\ bridges = <<>>
    /\ populated = 0 /\ stopAt = {} /\ runs = 0 /\ destroyed = 0

Mask24 == <<255, 255, 255, 0>>

DeviceOf(a) == <<a.link, a.dev>>

AddressedDevices == {DeviceOf(assigned[i]) : i \in DOMAIN assigned}

\* the <<link, network, mask>> triples in use
LinkBlocks == {<<assigned[i].link, assigned[i].net, assigned[i].mask>> : i \in DOMAIN assigned}

AssignmentsTo(d) == {i \in DOMAIN assigned : DeviceOf(assigned[i]) = d}

----------------------------------------------------------------------------

\* C1: for every router count N in 1..63 the chain never holds more than
\* N+2 endpoints and N+1 links, the p-th link created joins endpoints p-1 and
\* p, only endpoints 1..N ever get a protocol stack, and the completed build
\* has exactly N+2 endpoints, exactly N+1 links and a stack on exactly 1..N.
ChainShape ==
    (Parsed /\ ValidCount) =>
        /\ nodes \in {0, N + 2}
        /\ Len(links) <= N + 1
        /\ \A p \in DOMAIN links : links[p] = <<p - 1, p>>
        /\ stacked \subseteq 1..N
        /\ BuildComplete =>
              /\ nodes = N + 2
              /\ Len(links) = N + 1
              /\ stacked = 1..N

ChainShapeWitness == pc = "bridge0" /\ N = 63 /\ Len(links) = 64 /\ stacked = 1..63

\* C2: at every point of a valid build, address blocks given to two
\* different links never share an address.
BlocksDisjoint ==
    (Parsed /\ ValidCount) =>
        \A b1, b2 \in LinkBlocks :
            b1[1] < b2[1] => ~Overlap(b1[2], b1[3], b2[2], b2[3])

BlocksDisjointWitness == BuildComplete /\ N = 63 /\ Len(assigned) = 126

\* C3: with a router count of 0 or above 63 nothing is ever bound, created,
\* addressed, bridged, routed or run and the program ends with exit code 1
\* and the logged error; nothing is allocated before validation has passed.
InvalidCountFailsClean ==
    /\ pc \in {"parse", "validate"} => NothingAllocated
    /\ (Parsed /\ ~ValidCount) =>
          /\ NothingAllocated
          /\ pc \in {"validate", "done"}
          /\ pc = "done" => (exitCode = <<1>> /\ errors = <<"Invalid router count">>)

InvalidCountWitness == pc = "done" /\ N = 0 /\ exitCode = <<1>> /\ NothingAllocated

\* C4: in a valid build the i-th block handed out (i counted from 0) is
\* 172.20.i.0 with mask 255.255.255.0, it is handed out after link i exists,
\* every address on link i comes from that one hand-out, and the completed
\* build has handed out exactly N+1 blocks, one for every link.
BlockPerLink ==
    (Parsed /\ ValidCount) =>
        /\ \A i \in DOMAIN bases : bases[i] = <<172, 20, i - 1, 0>>
        /\ Len(bases) <= Len(links)
        /\ \A i \in DOMAIN assigned :
              /\ assigned[i].net = <<172, 20, assigned[i].link - 1, 0>>
              /\ assigned[i].mask = Mask24
              /\ assigned[i].alloc = assigned[i].link
        /\ BuildComplete =>
              /\ Len(bases) = N + 1
              /\ \A k \in 1..(N + 1) : \E i \in DOMAIN assigned : assigned[i].link = k

BlockPerLinkWitness == Succeeded /\ N = 12 /\ bases[13] = <<172, 20, 12, 0>>

\* C5: in a valid build no device of endpoint 0 or endpoint N+1 is ever
\* addressed; on the first link only device 1 and on the last link only
\* device 0 is addressed, and in the completed build the addressed devices
\* are exactly those two and both devices of every interior link.
RouterSideOnly ==
    (Parsed /\ ValidCount) =>
        /\ \A d \in AddressedDevices : Owner(d) \notin {0, N + 1}
        /\ \A d \in AddressedDevices : d[1] = 1 => d[2] = 1
        /\ \A d \in AddressedDevices : d[1] = N + 1 => d[2] = 0
        /\ BuildComplete =>
              AddressedDevices =
                  {<<1, 1>>, <<N + 1, 0>>} \cup ((2..N) \X {0, 1})

RouterSideOnlyWitness ==
    BuildComplete /\ N = 3 /\ AddressedDevices = {<<1, 1>>, <<2, 0>>, <<2, 1>>, <<3, 0>>, <<3, 1>>, <<4, 0>>}

\* C6: in a valid build at most two bridges are attached, never on a device
\* of a router; the first attaches device 0 of the first link to endpoint 0
\* as ns3_em0, the second attaches device 1 of the last link to endpoint N+1
\* as ns3_em1, and both exist once line 87 has executed.
TwoBridges ==
    (Parsed /\ ValidCount) =>
        /\ Len(bridges) <= 2
        /\ \A i \in DOMAIN bridges :
              /\ Owner(bridges[i].dev) = bridges[i].node
              /\ Owner(bridges[i].dev) \notin 1..N
        /\ Len(bridges) >= 1 =>
              /\ firstDevices = <<<<1, 0>>, <<1, 1>>>>
              /\ bridges[1] = [node |-> 0, dev |-> <<1, 0>>,
                               mode |-> "UseBridge", name |-> "ns3_em0"]
        /\ Len(bridges) >= 2 =>
              /\ lastDevices = <<<<N + 1, 0>>, <<N + 1, 1>>>>
              /\ bridges[2] = [node |-> N + 1, dev |-> <<N + 1, 1>>,
                               mode |-> "UseBridge", name |-> "ns3_em1"]
              /\ bridges[1].name # bridges[2].name
        /\ BridgesComplete => Len(bridges) = 2

TwoBridgesWitness == pc = "routing" /\ N = 2 /\ Len(bridges) = 2

\* C7: routing is populated at most once; when it has been populated all
\* N+1 links and all 2N addresses exist and the step that did it left the
\* engine not yet run; the engine runs only after it; the guard at line 90
\* is only ever reached with a router count of at least 1; a successful
\* build has populated routing exactly once.
RoutingOnce ==
    /\ populated <= 1
    /\ pc = "routing" => (N >= 1 /\ populated = 0)
    /\ populated = 1 =>
          /\ Len(links) = N + 1
          /\ Len(assigned) = 2 * N
          /\ Len(bridges) = 2
    /\ pc = "stop" => (populated = 1 /\ runs = 0)
    /\ runs >= 1 => populated = 1
    /\ Succeeded => populated = 1

RoutingOnceWitness == pc = "stop" /\ populated = 1 /\ N = 1 /\ runs = 0

\* C8 as stated: with one router the first and the last link are one link
\* and a single address assignment is made.
SingleRouterOneLink ==
    (BuildComplete /\ N = 1) => (firstDevices = lastDevices /\ Len(assigned) = 1)

\* C8 amended: with one router the first link (endpoints 0-1) and the last
\* link (endpoints 1-2) are two links; the router's device on each receives
\* exactly one block, 172.20.0.0 on the first and 172.20.1.0 on the last,
\* and no device is ever assigned twice.
SingleRouterTwoLinks ==
    (Parsed /\ N = 1) =>
        /\ \A d \in AddressedDevices : Cardinality(AssignmentsTo(d)) = 1
        /\ BuildComplete =>
              /\ firstDevices = <<<<1, 0>>, <<1, 1>>>> /\ lastDevices = <<<<2, 0>>, <<2, 1>>>>
              /\ links = << <<0, 1>>, <<1, 2>> >>
              /\ Len(assigned) = 2
              /\ DeviceOf(assigned[1]) = <<1, 1>> /\ assigned[1].net = <<172, 20, 0, 0>>
              /\ DeviceOf(assigned[2]) = <<2, 0>> /\ assigned[2].net = <<172, 20, 1, 0>>
              /\ Owner(<<1, 1>>) = 1 /\ Owner(<<2, 0>>) = 1

SingleRouterWitness == pc = "bridge0" /\ N = 1 /\ Len(assigned) = 2 /\ Len(links) = 2

\* C9: the engine is run once, only with the stop at runSeconds already
\* installed; the stop is installed before the run; destroy happens once and
\* only after the run; once the engine has run no topology state changes;
\* a valid run ends with exit code 0 after one run and one destroy.
EngineLifecycle ==
    [][ /\ runs' # runs =>
              (runs = 0 /\ runs' = 1 /\ stopAt = {runSeconds} /\ destroyed = 0)
        /\ stopAt' # stopAt => (runs = 0 /\ stopAt' = {runSeconds})
        /\ destroyed' # destroyed =>
              (destroyed = 0 /\ destroyed' = 1 /\ runs = 1)
        /\ runs >= 1 => UNCHANGED topology
        /\ exitCode' = <<0>> => (runs' = 1 /\ destroyed' = 1 /\ stopAt' = {runSeconds})
        /\ (pc' = "done" /\ pc # "done" /\ ValidCount) => exitCode' = <<0>>
      ]_vars

EngineLifecycleWitness ==
    Succeeded /\ runs = 1 /\ destroyed = 1 /\ stopAt = {AltRunSeconds} /\ N = 2

\* C10: in a valid build every addressed device belongs to an endpoint in
\* 1..N that has its protocol stack installed, from the moment of the
\* assignment on (the first link's device included).
StackBeforeAddress ==
    (Parsed /\ ValidCount) =>
        \A d \in AddressedDevices : Owner(d) \in stacked /\ Owner(d) \in 1..N

StackBeforeAddressWitness ==
    /\ pc = "inner_loop" /\ N = 5
    /\ AddressedDevices = {Get(firstDevices, 1)}
    /\ Owner(Get(firstDevices, 1)) \in stacked

====
